---- MODULE Spec2Model ----
(***************************************************************************)
(* Model of the adjacent-parcel merge of data/scripts/merge_parcels.py.    *)
(*                                                                         *)
(* Python lists are TLA+ sequences, so every index is 1-based here where   *)
(* the source is 0-based.  A string is a sequence of one-character         *)
(* strings, so that strip(), upper() and the f-string of get_owner_key     *)
(* are computed character by character.  Numbers are integers (a fixed     *)
(* decimal unit).  A geometry is a finite set of points of the plane, a    *)
(* subset of which is its interior.                                        *)
(***************************************************************************)
EXTENDS Integers, Sequences, FiniteSets, TLC

\* Largest number of features of an input collection.
MaxFeatures == 3

(***************************************************************************)
(* Python values held in a properties map.                                 *)
(***************************************************************************)
Null == [t |-> "null", n |-> 0, s |-> <<>>, l |-> <<>>]
Num(k) == [t |-> "num", n |-> k, s |-> <<>>, l |-> <<>>]
Str(chars) == [t |-> "str", n |-> 0, s |-> chars, l |-> <<>>]
List(vals) == [t |-> "list", n |-> 0, s |-> <<>>, l |-> vals]

\* bool(v) as used by the `or` of get_owner_key and of merge_features
Truthy(v) ==
    CASE v.t = "null" -> FALSE
      [] v.t = "num" -> v.n # 0
      [] v.t = "str" -> v.s # <<>>
      [] v.t = "list" -> v.l # <<>>

\* a or b
PyOr(a, b) == IF Truthy(a) THEN a ELSE b

\* dict.get(field): None when the key is missing
get(properties, field) ==
    IF field \in DOMAIN properties THEN properties[field] ELSE Null

(***************************************************************************)
(* str.strip() and str.upper()                                             *)
(***************************************************************************)
RECURSIVE lstrip(_)
lstrip(s) == IF s # <<>> /\ Head(s) = " " THEN lstrip(Tail(s)) ELSE s

RECURSIVE rstrip(_)
rstrip(s) ==
    IF s # <<>> /\ s[Len(s)] = " " THEN rstrip(SubSeq(s, 1, Len(s) - 1)) ELSE s

strip(s) == rstrip(lstrip(s))

upper_char(c) ==
    CASE c = "a" -> "A"
      [] c = "b" -> "B"
      [] OTHER -> c

upper(s) == [i \in 1..Len(s) |-> upper_char(s[i])]

(***************************************************************************)
(* float(val): the digits of a stripped string with an optional sign;      *)
(* ok = FALSE stands for ValueError / TypeError.                           *)
(***************************************************************************)
Digits == {"0", "1", "2", "3", "4", "5", "6", "7", "8", "9"}

digit_value(c) ==
    CASE c = "0" -> 0 [] c = "1" -> 1 [] c = "2" -> 2 [] c = "3" -> 3
      [] c = "4" -> 4 [] c = "5" -> 5 [] c = "6" -> 6 [] c = "7" -> 7
      [] c = "8" -> 8 [] c = "9" -> 9

RECURSIVE parse_digits(_, _)
parse_digits(s, acc) ==
    IF s = <<>> THEN acc
    ELSE parse_digits(Tail(s), 10 * acc + digit_value(Head(s)))

all_digits(s) == s # <<>> /\ \A i \in 1..Len(s) : s[i] \in Digits

float(val) ==
    CASE val.t = "num" -> [ok |-> TRUE, v |-> val.n]
      [] val.t = "str" ->
            LET body == strip(val.s)
                neg == body # <<>> /\ Head(body) = "-"
                mag == IF neg THEN Tail(body) ELSE body
            IN  IF all_digits(mag)
                THEN [ok |-> TRUE,
                      v |-> IF neg THEN 0 - parse_digits(mag, 0)
                            ELSE parse_digits(mag, 0)]
                ELSE [ok |-> FALSE, v |-> 0]
      [] OTHER -> [ok |-> FALSE, v |-> 0]

(***************************************************************************)
(* Geometries.  A GeoJSON geometry object is kind "ok" (well-formed) or    *)
(* "bad" (null, absent or malformed: shape() raises).  pts is the point    *)
(* set, inter its interior; valid is shapely's is_valid; predErr / unionErr*)
(* mark topology on which the engine's predicates / union raise even after *)
(* repair.  kind "none" is Python's None in the list `geometries`.         *)
(***************************************************************************)
Geom(valid, pts, inter, predErr, unionErr) ==
    [kind |-> "ok", valid |-> valid, pts |-> pts, inter |-> inter,
     predErr |-> predErr, unionErr |-> unionErr]

BadGeom == [kind |-> "bad", valid |-> FALSE, pts |-> {}, inter |-> {},
            predErr |-> FALSE, unionErr |-> FALSE]

NoneGeom == [kind |-> "none", valid |-> FALSE, pts |-> {}, inter |-> {},
             predErr |-> FALSE, unionErr |-> FALSE]

\* shapely.validation.make_valid: same point set, valid representation
make_valid(geom) == [geom EXCEPT !.valid = TRUE]

\* the try block shared by merge_features and merge_parcels:
\* shape(f['geometry']), repaired when not valid; None when shape() raises
parse_geometry(f) ==
    IF f.geometry.kind # "ok" THEN NoneGeom
    ELSE IF ~f.geometry.valid THEN make_valid(f.geometry)
    ELSE f.geometry

\* shapely.geometry.mapping: back to a GeoJSON geometry object
mapping(geom) == [geom EXCEPT !.kind = "ok"]

\* a.touches(b): a common point, no common interior point
touches(a, b) == (a.pts \cap b.pts # {}) /\ (a.inter \cap b.inter = {})

\* a.intersects(b): a common point
intersects(a, b) == a.pts \cap b.pts # {}

\* the geometry engine raises on this pair
predicate_raises(a, b) == a.predErr \/ b.predErr

RECURSIVE union_pts(_)
union_pts(geometries) ==
    IF geometries = <<>> THEN {}
    ELSE Head(geometries).pts \cup union_pts(Tail(geometries))

RECURSIVE union_inter(_)
union_inter(geometries) ==
    IF geometries = <<>> THEN {}
    ELSE Head(geometries).inter \cup union_inter(Tail(geometries))

\* shapely.ops.unary_union raises on this list
union_raises(geometries) ==
    \E i \in 1..Len(geometries) : geometries[i].unionErr

\* shapely.ops.unary_union: the set union of the members
unary_union(geometries) ==
    Geom(TRUE, union_pts(geometries), union_inter(geometries), FALSE, FALSE)

(***************************************************************************)
(* Features.  has_properties tells whether the feature's 'properties'      *)
(* member is a map, is null, or is absent.                                 *)
(***************************************************************************)
Feature(geometry, properties) ==
    [geometry |-> geometry, properties |-> properties, has_properties |-> "map"]

EmptyProps == [x \in {} |-> Null]

\* f.get('properties', {})
feature_properties(f) ==
    IF f.has_properties = "absent" THEN EmptyProps ELSE f.properties

(***************************************************************************)
(* get_owner_key.  raised: .strip() on a value that is no string, or       *)
(* .get on a null properties object; none: the function returned None.     *)
(***************************************************************************)
\* owner_of reading the lower-case field only
owner_of_lowercase_only(properties) ==
    PyOr(get(properties, "ownername"), Str(<<>>))

owner_of(properties) ==
    PyOr(PyOr(get(properties, "ownername"), get(properties, "OWNERNAME")),
         Str(<<>>))

address_of(properties) ==
    PyOr(PyOr(get(properties, "citystatez"), get(properties, "CITYSTATEZ")),
         Str(<<>>))

make_key(owner, address) == owner \o <<"|">> \o address

\* has_no_owner without the test for an empty owner
has_no_owner_never(owner) == FALSE

has_no_owner(owner) == owner = <<>>

get_owner_key(f) ==
    IF f.has_properties = "null"
    THEN [raised |-> TRUE, none |-> FALSE, key |-> <<>>]
    ELSE LET properties == feature_properties(f)
             o == owner_of(properties)
             a == address_of(properties)
         IN  IF o.t # "str" \/ a.t # "str"
             THEN [raised |-> TRUE, none |-> FALSE, key |-> <<>>]
             ELSE LET owner == upper(strip(o.s))
                      address == upper(strip(a.s))
                  IN  IF has_no_owner(owner)
                      THEN [raised |-> FALSE, none |-> TRUE, key |-> <<>>]
                      ELSE [raised |-> FALSE, none |-> FALSE,
                            key |-> make_key(owner, address)]

(***************************************************************************)
(* find_adjacent_groups                                                    *)
(***************************************************************************)
\* has_edge testing touches() alone
has_edge_touches_only(a, b) == ~predicate_raises(a, b) /\ touches(a, b)

\* the test of one pair: an exception is caught and leaves no edge
has_edge(a, b) ==
    ~predicate_raises(a, b) /\ (touches(a, b) \/ intersects(a, b))

\* adjacent where a raising test ends the inner loop: the pairs (i, j') with
\* j' beyond the raising one are not tested
adjacent_break_on_raise(geometries) ==
    [i \in 1..Len(geometries) |->
        {j \in 1..Len(geometries) :
            /\ j # i
            /\ LET lo == IF i < j THEN i ELSE j
                   hi == IF i < j THEN j ELSE i
               IN  /\ has_edge(geometries[lo], geometries[hi])
                   /\ \A m \in (lo + 1)..(hi - 1) :
                         ~predicate_raises(geometries[lo], geometries[m])}]

\* adjacent recording an edge at its smaller index only
adjacent_one_way(geometries) ==
    [i \in 1..Len(geometries) |->
        {j \in 1..Len(geometries) :
            i < j /\ has_edge(geometries[i], geometries[j])}]

\* adjacent[i], after both loops over i < j
adjacent(geometries) ==
    [i \in 1..Len(geometries) |->
        {j \in 1..Len(geometries) :
            /\ j # i
            /\ IF i < j THEN has_edge(geometries[i], geometries[j])
               ELSE has_edge(geometries[j], geometries[i])}]

\* the members of a set of indices in ascending order (iteration order of a
\* CPython set of small non-negative integers)
RECURSIVE ascending(_)
ascending(S) ==
    IF S = {} THEN <<>>
    ELSE LET m == CHOOSE x \in S : \A y \in S : x <= y
         IN  <<m>> \o ascending(S \ {m})

\* append_unvisited queueing no neighbour at all
append_unvisited_none(queue, neighbors, visited) == queue

RECURSIVE append_unvisited(_, _, _)
append_unvisited(queue, neighbors, visited) ==
    IF neighbors = <<>> THEN queue
    ELSE append_unvisited(
            IF Head(neighbors) \notin visited
            THEN Append(queue, Head(neighbors)) ELSE queue,
            Tail(neighbors), visited)

\* bfs stopping at the neighbours of the start: what is connected to the
\* start through another index only is left for a later group
bfs_neighbours_only(queue, visited, group, adj) ==
    [group |-> <<Head(queue)>> \o ascending(adj[Head(queue)] \ visited),
     visited |-> visited \cup {Head(queue)} \cup adj[Head(queue)]]

\* the while loop: returns the group and the visited set
RECURSIVE bfs(_, _, _, _)
bfs(queue, visited, group, adj) ==
    IF queue = <<>> THEN [group |-> group, visited |-> visited]
    ELSE LET node == Head(queue)
         IN  IF node \in visited
             THEN bfs(Tail(queue), visited, group, adj)
             ELSE bfs(append_unvisited(Tail(queue), ascending(adj[node]),
                                       visited \cup {node}),
                      visited \cup {node}, Append(group, node), adj)

\* the loop over start
RECURSIVE components_from(_, _, _, _, _)
components_from(start, n, visited, groups, adj) ==
    IF start > n THEN groups
    ELSE IF start \in visited
         THEN components_from(start + 1, n, visited, groups, adj)
         ELSE LET r == bfs(<<start>>, visited, <<>>, adj)
              IN  components_from(start + 1, n, r.visited,
                                  Append(groups, r.group), adj)

find_adjacent_groups(geometries) ==
    LET n == Len(geometries)
    IN  IF n <= 1 THEN [i \in 1..n |-> <<i>>]
        ELSE components_from(1, n, {}, <<>>, adjacent(geometries))

(***************************************************************************)
(* merge_features                                                          *)
(***************************************************************************)
numeric_fields ==
    <<"gisacres", "GISACRES", "totalvalue", "TOTALVALUE",
      "landvalue", "LANDVALUE", "improvvalue", "IMPROVVALUE">>

\* the list `geometries` of merge_features: features whose shape() raises
\* are skipped
parsed_geometries(features) ==
    SelectSeq([k \in 1..Len(features) |-> parse_geometry(features[k])],
              LAMBDA geom : geom.kind # "none")

\* merged_geometry keeping the first geometry, never the union
merged_geometry_first_only(geometries) == geometries[1]

\* merged_geometry falling back to the last geometry
merged_geometry_last_on_failure(geometries) ==
    IF union_raises(geometries) THEN geometries[Len(geometries)]
    ELSE unary_union(geometries)

\* unary_union, or the first geometry when it raises
merged_geometry(geometries) ==
    IF union_raises(geometries) THEN geometries[1]
    ELSE unary_union(geometries)

\* addend converting numbers only, not numeric strings
addend_numbers_only(f, field) ==
    LET val == get(f.properties, field)
    IN  IF val.t = "num" THEN val.n ELSE 0

\* what one member adds to total
addend(f, field) ==
    LET val == get(f.properties, field)
    IN  IF val.t # "null" /\ float(val).ok THEN float(val).v ELSE 0

\* total after the inner loop over features
RECURSIVE field_total(_, _)
field_total(features, field) ==
    IF features = <<>> THEN 0
    ELSE addend(Head(features), field) + field_total(Tail(features), field)

\* write_total writing every total that is not negative
write_total_nonnegative(base_props, field, total) ==
    IF total >= 0 THEN (field :> Num(total)) @@ base_props ELSE base_props

\* if total > 0: base_props[field] = total
write_total(base_props, field, total) ==
    IF total > 0 THEN (field :> Num(total)) @@ base_props ELSE base_props

\* the loop over numeric_fields, from field number k on
RECURSIVE sum_numeric_fields(_, _, _)
sum_numeric_fields(base_props, features, k) ==
    IF k > Len(numeric_fields) THEN base_props
    ELSE sum_numeric_fields(
            write_total(base_props, numeric_fields[k],
                        field_total(features, numeric_fields[k])),
            features, k + 1)

\* merged_parcels reading the lower-case field only
merged_parcels_lowercase_only(features) ==
    [k \in 1..Len(features) |-> get(features[k].properties, "parcelid")]

merged_parcels(features) ==
    [k \in 1..Len(features) |->
        PyOr(get(features[k].properties, "parcelid"),
             get(features[k].properties, "PARCELID"))]

\* add_merge_metadata taking over the properties of the last member as well
add_merge_metadata_with_members(base_props, features) ==
    ("_merged_count" :> Num(Len(features)))
    @@ ("_merged_parcels" :> List(merged_parcels(features)))
    @@ base_props
    @@ features[Len(features)].properties

add_merge_metadata(base_props, features) ==
    ("_merged_count" :> Num(Len(features)))
    @@ ("_merged_parcels" :> List(merged_parcels(features)))
    @@ base_props

merge_features(features) ==
    IF Len(features) = 1 THEN features[1]
    ELSE LET geometries == parsed_geometries(features)
         IN  IF geometries = <<>> THEN features[1]
             ELSE [geometry |-> mapping(merged_geometry(geometries)),
                   properties |->
                       add_merge_metadata(
                           sum_numeric_fields(features[1].properties,
                                              features, 1),
                           features),
                   has_properties |-> "map"]

(***************************************************************************)
(* Input collections.  The points of the plane are 1..5; G1 touches G2,    *)
(* G2 overlaps G3, G1 and G3 are disjoint, G4 is isolated.                 *)
(***************************************************************************)
G1 == Geom(TRUE, {1, 2}, {1}, FALSE, FALSE)
G2 == Geom(TRUE, {2, 3}, {3}, FALSE, FALSE)
G3 == Geom(TRUE, {3, 4}, {3, 4}, FALSE, FALSE)
G4 == Geom(TRUE, {5}, {5}, FALSE, FALSE)
G2Invalid == Geom(FALSE, {2, 3}, {3}, FALSE, FALSE)
G2PredErr == Geom(TRUE, {2, 3}, {3}, TRUE, FALSE)
G3UnionErr == Geom(TRUE, {3, 4}, {3, 4}, FALSE, TRUE)

OwnerA == "ownername" :> Str(<<"a">>)

\* one owner, every kind of geometry; one other owner; one feature without
GeometryFeatures ==
    { Feature(G1, OwnerA @@ ("gisacres" :> Num(30))),
      Feature(G2, OwnerA @@ ("gisacres" :> Num(25))),
      Feature(G3, OwnerA @@ ("parcelid" :> Str(<<"3">>))),
      Feature(G4, OwnerA),
      Feature(BadGeom, OwnerA @@ ("parcelid" :> Str(<<"5">>))),
      Feature(G2Invalid, OwnerA @@ ("zoning" :> Str(<<"b">>))),
      Feature(G2PredErr, OwnerA),
      Feature(G3UnionErr, OwnerA),
      Feature(G1, "ownername" :> Str(<<"b">>)),
      Feature(G2, EmptyProps) }

\* one owner, mutually overlapping geometries, every kind of numeric value
NumericFeatures ==
    { Feature(G2, OwnerA @@ ("gisacres" :> Num(30))
                         @@ ("totalvalue" :> Num(100))
                         @@ ("parcelid" :> Str(<<"1">>))
                         @@ ("zoning" :> Str(<<"a">>))),
      Feature(G2, OwnerA @@ ("gisacres" :> Num(25))
                         @@ ("PARCELID" :> Str(<<"2">>))),
      Feature(G2, OwnerA @@ ("gisacres" :> Null)
                         @@ ("totalvalue" :> Str(<<" ", "1", "2">>))),
      Feature(G2, OwnerA @@ ("gisacres" :> Num(0))
                         @@ ("parcelid" :> Str(<<>>))),
      Feature(G2, OwnerA @@ ("gisacres" :> Num(0 - 5))
                         @@ ("landvalue" :> Str(<<"-", "7">>))),
      Feature(G3, OwnerA @@ ("GISACRES" :> Num(10))
                         @@ ("improvvalue" :> Str(<<"0">>))),
      Feature(G3, OwnerA @@ ("gisacres" :> Str(<<"a">>))
                         @@ ("landvalue" :> Num(7))),
      Feature(G3, OwnerA) }

\* every spelling of owner name and tax address
OwnerFeatures ==
    { Feature(G1, "ownername" :> Str(<<"a">>)),
      Feature(G2, "OWNERNAME" :> Str(<<" ", "A", " ">>)),
      Feature(G2, ("ownername" :> Str(<<>>)) @@ ("OWNERNAME" :> Str(<<"a">>))
                  @@ ("citystatez" :> Null)),
      Feature(G1, ("ownername" :> Str(<<"a">>))
                  @@ ("citystatez" :> Str(<<"b", " ">>))),
      Feature(G2, ("OWNERNAME" :> Str(<<"A">>))
                  @@ ("CITYSTATEZ" :> Str(<<" ", "B">>))),
      Feature(G1, "ownername" :> Str(<<"A", "|">>)),
      Feature(G2, ("ownername" :> Str(<<"A">>))
                  @@ ("citystatez" :> Str(<<"|">>))),
      Feature(G2, ("ownername" :> Str(<<" ">>))
                  @@ ("OWNERNAME" :> Str(<<"a">>))),
      Feature(G1, ("ownername" :> Null) @@ ("citystatez" :> Str(<<"b">>))),
      Feature(G2, "OWNERNAME" :> Str(<<"b">>)) }

\* features that get_owner_key cannot handle, among sound ones
DefectFeatures ==
    { [Feature(G1, EmptyProps) EXCEPT !.has_properties = "null"],
      [Feature(G1, EmptyProps) EXCEPT !.has_properties = "absent"],
      Feature(G2, "ownername" :> Num(7)),
      Feature(G2, ("ownername" :> Str(<<"a">>)) @@ ("citystatez" :> Num(7))),
      Feature(G1, OwnerA) }

SeqsUpTo(S, n) == UNION {[1..k -> S] : k \in 0..n}

Inputs ==
    SeqsUpTo(GeometryFeatures, MaxFeatures)
    \cup SeqsUpTo(NumericFeatures, MaxFeatures)
    \cup SeqsUpTo(OwnerFeatures, MaxFeatures)
    \cup SeqsUpTo(DefectFeatures, MaxFeatures)

(***************************************************************************)
(* merge_parcels as a state machine.                                       *)
(*   input            input_data['features']                               *)
(*   pc               "group": the loop over features; "process": the loop *)
(*                    over owner_groups; "done": returned; "raised": an    *)
(*                    exception left merge_parcels                         *)
(*   i                position of the next feature of the grouping loop    *)
(*   owner_groups     the defaultdict in insertion order, each entry a key *)
(*                    and the input positions of its features              *)
(*   no_owner         input positions of the features without key          *)
(*   g                position of the next entry of owner_groups           *)
(*   merged_features  the output list; src records the input positions a   *)
(*                    feature was made from                                *)
(***************************************************************************)
VARIABLES input, pc, i, owner_groups, no_owner, g, merged_features

\* the collections and the running call of geo_utils and of the pipeline
\* entry points
VARIABLES frames, run

merge_vars == <<input, pc, i, owner_groups, no_owner, g, merged_features>>

geo_vars == <<frames, run>>

vars == <<input, pc, i, owner_groups, no_owner, g, merged_features, frames,
          run>>

\* no call of geo_utils is running
NoRun == [status |-> "idle"]

Init ==
    /\ input \in Inputs
    /\ pc = "group"
    /\ i = 1
    /\ owner_groups = <<>>
    /\ no_owner = <<>>
    /\ g = 1
    /\ merged_features = <<>>
    /\ frames = <<>>
    /\ run = NoRun

\* add_to_group putting a new key ahead of the others
add_to_group_front(groups, key, p) ==
    IF \E k \in 1..Len(groups) : groups[k].key = key
    THEN [k \in 1..Len(groups) |->
            IF groups[k].key = key
            THEN [groups[k] EXCEPT !.features = Append(@, p)]
            ELSE groups[k]]
    ELSE <<[key |-> key, features |-> <<p>>]>> \o groups

\* owner_groups[key].append(f)
add_to_group(groups, key, p) ==
    IF \E k \in 1..Len(groups) : groups[k].key = key
    THEN [k \in 1..Len(groups) |->
            IF groups[k].key = key
            THEN [groups[k] EXCEPT !.features = Append(@, p)]
            ELSE groups[k]]
    ELSE Append(groups, [key |-> key, features |-> <<p>>])

\* one pass of the loop `for f in features`
GroupFeature ==
    /\ pc = "group"
    /\ i <= Len(input)
    /\ ~get_owner_key(input[i]).raised
    /\ LET r == get_owner_key(input[i])
       IN  IF r.none
           THEN /\ no_owner' = Append(no_owner, i)
                /\ UNCHANGED owner_groups
           ELSE /\ owner_groups' = add_to_group(owner_groups, r.key, i)
                /\ UNCHANGED no_owner
    /\ i' = i + 1
    /\ UNCHANGED <<input, pc, g, merged_features>>
    /\ UNCHANGED geo_vars

\* get_owner_key raises: nothing catches it
GroupFeatureRaises ==
    /\ pc = "group"
    /\ i <= Len(input)
    /\ get_owner_key(input[i]).raised
    /\ pc' = "raised"
    /\ UNCHANGED <<input, i, owner_groups, no_owner, g, merged_features>>
    /\ UNCHANGED geo_vars

\* the grouping loop is exhausted
StartProcessing ==
    /\ pc = "group"
    /\ i > Len(input)
    /\ pc' = "process"
    /\ UNCHANGED <<input, i, owner_groups, no_owner, g, merged_features>>
    /\ UNCHANGED geo_vars

\* pass_through marking the feature as a merge of one
pass_through_counted(p) ==
    [feature |-> [input[p] EXCEPT
                     !.properties = ("_merged_count" :> Num(1)) @@ @],
     src |-> <<p>>]

\* a feature handed to the output as it is
pass_through(p) == [feature |-> input[p], src |-> <<p>>]

valid_indices(geometries) ==
    SelectSeq([k \in 1..Len(geometries) |-> k],
              LAMBDA k : geometries[k].kind # "none")

\* the output of one connected component
component_output(owner_features, original_indices) ==
    IF Len(original_indices) > 1
    THEN [feature |->
            merge_features([k \in 1..Len(original_indices) |->
                               input[owner_features[original_indices[k]]]]),
          src |-> [k \in 1..Len(original_indices) |->
                      owner_features[original_indices[k]]]]
    ELSE pass_through(owner_features[original_indices[1]])

\* the loop `for group_indices in adjacent_groups`
merged_components(owner_features, valid, adjacent_groups) ==
    [c \in 1..Len(adjacent_groups) |->
        component_output(owner_features,
            [k \in 1..Len(adjacent_groups[c]) |->
                valid[adjacent_groups[c][k]]])]

\* what one pass of `for owner_key, owner_features in owner_groups.items()`
\* adds to merged_features
owner_group_output(owner_features) ==
    IF Len(owner_features) = 1
    THEN <<pass_through(owner_features[1])>>
    ELSE LET geometries == [k \in 1..Len(owner_features) |->
                               parse_geometry(input[owner_features[k]])]
             valid == valid_indices(geometries)
             valid_geoms == [k \in 1..Len(valid) |-> geometries[valid[k]]]
         IN  IF Len(valid_geoms) <= 1
             THEN [k \in 1..Len(owner_features) |->
                      pass_through(owner_features[k])]
             ELSE merged_components(owner_features, valid,
                                    find_adjacent_groups(valid_geoms))

\* base_props being the first member's own map (no dict() around it)
base_props_sharers_first(p) == {p}

\* the input positions whose properties map is the very object base_props:
\* dict(features[0]['properties']) builds a map of its own
base_props_sharers(p) == {}

\* the input after merge_features has written base_props for the components of
\* one owner group: a write reaches an input feature only through a shared map
input_after_merge(owner_features) ==
    LET out == owner_group_output(owner_features)
    IN  [p \in DOMAIN input |->
            IF \E x \in DOMAIN out :
                  /\ Len(out[x].src) >= 2
                  /\ p \in base_props_sharers(out[x].src[1])
            THEN LET x == CHOOSE y \in DOMAIN out :
                              /\ Len(out[y].src) >= 2
                              /\ p \in base_props_sharers(out[y].src[1])
                 IN  [input[p] EXCEPT !.properties = out[x].feature.properties]
            ELSE input[p]]

ProcessOwnerGroup ==
    /\ pc = "process"
    /\ g <= Len(owner_groups)
    /\ merged_features' =
          merged_features \o owner_group_output(owner_groups[g].features)
    /\ input' = input_after_merge(owner_groups[g].features)
    /\ g' = g + 1
    /\ UNCHANGED <<pc, i, owner_groups, no_owner>>
    /\ UNCHANGED geo_vars

\* merged_features.extend(no_owner) and the return
AddNoOwner ==
    /\ pc = "process"
    /\ g > Len(owner_groups)
    /\ merged_features' =
          merged_features \o [k \in 1..Len(no_owner) |-> pass_through(no_owner[k])]
    /\ pc' = "done"
    /\ UNCHANGED <<input, i, owner_groups, no_owner, g>>
    /\ UNCHANGED geo_vars

(***************************************************************************)
(* merge_parcels as a function of the feature list, for a call on a        *)
(* collection that is itself an output of merge_parcels.                   *)
(***************************************************************************)
\* the loop `for f in features`, from position k on: owner_groups and
\* no_owner hold positions of the list
RECURSIVE group_by_owner(_, _, _, _)
group_by_owner(features, k, groups, residual) ==
    IF k > Len(features)
    THEN [raised |-> FALSE, owner_groups |-> groups, no_owner |-> residual]
    ELSE LET r == get_owner_key(features[k])
         IN  IF r.raised
             THEN [raised |-> TRUE, owner_groups |-> groups,
                   no_owner |-> residual]
             ELSE IF r.none
             THEN group_by_owner(features, k + 1, groups, Append(residual, k))
             ELSE group_by_owner(features, k + 1,
                                 add_to_group(groups, r.key, k), residual)

\* what one pass of the loop over owner_groups adds to merged_features
merged_group(features, owner_features) ==
    IF Len(owner_features) = 1 THEN <<features[owner_features[1]]>>
    ELSE LET geometries == [k \in 1..Len(owner_features) |->
                               parse_geometry(features[owner_features[k]])]
             valid == valid_indices(geometries)
             valid_geoms == [k \in 1..Len(valid) |-> geometries[valid[k]]]
             adjacent_groups == find_adjacent_groups(valid_geoms)
         IN  IF Len(valid_geoms) <= 1
             THEN [k \in 1..Len(owner_features) |->
                      features[owner_features[k]]]
             ELSE [c \in 1..Len(adjacent_groups) |->
                      LET group_features ==
                              [k \in 1..Len(adjacent_groups[c]) |->
                                  features[owner_features[
                                      valid[adjacent_groups[c][k]]]]]
                      IN  IF Len(group_features) > 1
                          THEN merge_features(group_features)
                          ELSE group_features[1]]

\* the loop over owner_groups, from entry k on
RECURSIVE merged_groups(_, _, _)
merged_groups(features, groups, k) ==
    IF k > Len(groups) THEN <<>>
    ELSE merged_group(features, groups[k].features)
         \o merged_groups(features, groups, k + 1)

\* raised: an exception left the call; features: the list it returned
merge_parcels(features) ==
    LET grouping == group_by_owner(features, 1, <<>>, <<>>)
    IN  IF grouping.raised THEN [raised |-> TRUE, features |-> <<>>]
        ELSE [raised |-> FALSE,
              features |->
                  merged_groups(features, grouping.owner_groups, 1)
                  \o [k \in 1..Len(grouping.no_owner) |->
                         features[grouping.no_owner[k]]]]

Next ==
    \/ GroupFeature
    \/ GroupFeatureRaises
    \/ StartProcessing
    \/ ProcessOwnerGroup
    \/ AddNoOwner

Spec == Init /\ [][Next]_vars

(***************************************************************************)
(* geo_utils: collections of features (GeoDataFrames).  A geometry is the  *)
(* set of points it covers, in the coordinates of the collection's CRS,    *)
(* its type, its validity and its number of vertices.  A collection is an  *)
(* object of the heap `frames`: a function that assigns into its argument  *)
(* changes the object its caller holds.                                    *)
(***************************************************************************)
WGS84 == "EPSG:4326"

WEB_MERCATOR == "EPSG:3857"

Shape(gtype, valid, pts, verts) ==
    [gtype |-> gtype, valid |-> valid, pts |-> pts, verts |-> verts]

\* a missing geometry (None)
NoShape == Shape("None", FALSE, {}, 0)

\* id is the index label of the row; values are aligned with the columns
Row(id, geometry, values) ==
    [id |-> id, geometry |-> geometry, values |-> values]

\* columns are the attribute columns; the geometry column is kept apart
FrameOf(crs, columns, rows) ==
    [crs |-> crs, columns |-> columns, rows |-> rows]

\* GeoSeries.is_valid: False for a missing geometry
is_valid(geom) == geom.gtype # "None" /\ geom.valid

\* GeoSeries.isna
isna(geom) == geom.gtype = "None"

\* the geometries of the rows, in row order
geometries_of(frame) ==
    [k \in 1..Len(frame.rows) |-> frame.rows[k].geometry]

\* gdf['geometry'] = geometries
with_geometries(frame, geometries) ==
    [frame EXCEPT !.rows =
        [k \in 1..Len(frame.rows) |->
            [frame.rows[k] EXCEPT !.geometry = geometries[k]]]]

\* where the origin of a coordinate system lies
crs_offset(crs) ==
    CASE crs = WGS84 -> 0
      [] crs = WEB_MERCATOR -> 10
      [] OTHER -> 20

\* GeoDataFrame.to_crs: a new collection, every point moved to the
\* coordinates of the target system
to_crs(frame, crs) ==
    LET shift == crs_offset(crs) - crs_offset(frame.crs)
        moved == [k \in 1..Len(frame.rows) |->
                     [frame.rows[k].geometry EXCEPT
                         !.pts = {p + shift : p \in @}]]
    IN  [with_geometries(frame, moved) EXCEPT !.crs = crs]

\* what a function call leaves: the heap, the collection it returns, and
\* whether it raised instead of returning
Returned(F, r) == [frames |-> F, ret |-> r, raised |-> FALSE]

Raised(F, r) == [frames |-> F, ret |-> r, raised |-> TRUE]

(***************************************************************************)
(* validate_geometries                                                     *)
(***************************************************************************)
invalid_count(frame) ==
    Cardinality({k \in 1..Len(frame.rows) : ~is_valid(frame.rows[k].geometry)})

\* make_valid(geom) if geom and not geom.is_valid else geom
repair(geom) ==
    IF ~isna(geom) /\ ~geom.valid THEN make_valid(geom) ELSE geom

\* keep_valid dropping nothing
keep_valid_all(frame) == frame

\* gdf[gdf.is_valid].copy()
keep_valid(frame) ==
    [frame EXCEPT !.rows = SelectSeq(@, LAMBDA row : is_valid(row.geometry))]

validate_geometries(F, r, fix) ==
    IF invalid_count(F[r]) = 0 THEN Returned(F, r)
    ELSE IF fix
         THEN LET repaired == [k \in 1..Len(F[r].rows) |->
                                  repair(F[r].rows[k].geometry)]
                  F1 == [F EXCEPT ![r] = with_geometries(@, repaired)]
              IN  IF invalid_count(F1[r]) > 0
                  THEN Returned(Append(F1, keep_valid(F1[r])), Len(F1) + 1)
                  ELSE Returned(F1, r)
         ELSE Returned(F, r)

(***************************************************************************)
(* simplify_geometries                                                     *)
(***************************************************************************)
\* the vertex-count lambda reads coords of a LineString, the exterior of a
\* Polygon and the exteriors of the parts of anything else
countable(geom) == geom.gtype \in {"LineString", "Polygon", "MultiPolygon"}

vertex_count_raises(frame) ==
    \E k \in 1..Len(frame.rows) : ~countable(frame.rows[k].geometry)

RECURSIVE vertex_count_upto(_, _)
vertex_count_upto(frame, k) ==
    IF k = 0 THEN 0
    ELSE vertex_count_upto(frame, k - 1) + frame.rows[k].geometry.verts

vertex_count(frame) == vertex_count_upto(frame, Len(frame.rows))

\* GeoSeries.simplify: fewer vertices, the same region
simplify(geom) ==
    IF isna(geom) THEN geom
    ELSE [geom EXCEPT !.verts = IF @ > 4 THEN 4 ELSE @]

\* zero_division_raises: whether dividing by a vertex count of zero raises
\* (a Python int) or yields nan (a numpy number)
simplify_geometries(F, r, zero_division_raises) ==
    IF vertex_count_raises(F[r]) THEN Raised(F, r)
    ELSE LET simplified == [k \in 1..Len(F[r].rows) |->
                               simplify(F[r].rows[k].geometry)]
             F1 == [F EXCEPT ![r] = with_geometries(@, simplified)]
         IN  IF vertex_count(F[r]) = 0 /\ zero_division_raises
             THEN Raised(F1, r)
             ELSE Returned(F1, r)

(***************************************************************************)
(* clean_column_names                                                      *)
(***************************************************************************)
WordChars ==
    {"a", "b", "c", "d", "e", "f", "g", "h", "i", "j", "k", "l", "m", "n",
     "o", "p", "q", "r", "s", "t", "u", "v", "w", "x", "y", "z", "A", "B",
     "_"} \cup Digits

\* re.sub(r'[^\w\s]', '', name)
remove_special(s) == SelectSeq(s, LAMBDA c : c \in WordChars \/ c = " ")

\* re.sub(r'\s+', '_', name)
RECURSIVE spaces_to_underscore(_)
spaces_to_underscore(s) ==
    IF s = <<>> THEN <<>>
    ELSE IF Head(s) = " "
         THEN <<"_">> \o spaces_to_underscore(lstrip(s))
         ELSE <<Head(s)>> \o spaces_to_underscore(Tail(s))

lower_char(c) ==
    CASE c = "A" -> "a"
      [] c = "B" -> "b"
      [] OTHER -> c

lower(s) == [k \in 1..Len(s) |-> lower_char(s[k])]

to_snake_case(s) == lower(spaces_to_underscore(remove_special(s)))

clean_column_names(F, r) ==
    Returned([F EXCEPT ![r].columns =
                 [k \in 1..Len(F[r].columns) |-> to_snake_case(F[r].columns[k])]],
             r)

(***************************************************************************)
(* clip_to_boundary                                                        *)
(***************************************************************************)
\* unary_union(boundary.geometry): the points of all boundary polygons
boundary_union(boundary) ==
    union_pts([k \in 1..Len(boundary.rows) |-> boundary.rows[k].geometry])

\* the rows the spatial index returns: those that intersect the mask
clip_candidates(frame, mask) ==
    {k \in 1..Len(frame.rows) :
        ~isna(frame.rows[k].geometry)
        /\ frame.rows[k].geometry.pts \cap mask # {}}

\* the orders in which the rows can come back: GeoDataFrame.clip is called
\* without sort=True, so the rows follow the spatial index, in no order that
\* the library promises
clip_orders(S) ==
    {s \in [1..Cardinality(S) -> S] :
        \A a, b \in 1..Cardinality(S) : a # b => s[a] # s[b]}

\* the intersection of a geometry that is not valid may raise in the engine
clip_may_raise(frame, mask) ==
    \E k \in clip_candidates(frame, mask) :
        ~frame.rows[k].geometry.valid /\ frame.rows[k].geometry.gtype # "Point"

\* gdf.clip(boundary_union), rows in the given order
clip(frame, mask, order) ==
    [frame EXCEPT !.rows =
        [j \in 1..Len(order) |->
            [frame.rows[order[j]] EXCEPT !.geometry.pts = @ \cap mask]]]

clip_to_boundary(F, r, boundary, order, engine_raises) ==
    LET b == IF F[r].crs # boundary.crs THEN to_crs(boundary, F[r].crs)
             ELSE boundary
        mask == boundary_union(b)
    IN  IF engine_raises THEN Raised(F, r)
        ELSE Returned(Append(F, clip(F[r], mask, order)), Len(F) + 1)

(***************************************************************************)
(* add_area_length_fields                                                  *)
(***************************************************************************)
area_sqm == <<"a", "r", "e", "a", "_", "s", "q", "m">>

area_acres == <<"a", "r", "e", "a", "_", "a", "c", "r", "e", "s">>

length_m == <<"l", "e", "n", "g", "t", "h", "_", "m">>

length_ft == <<"l", "e", "n", "g", "t", "h", "_", "f", "t">>

\* 0.000247105 acres in a square metre, in units of 1e-9 acre
AcresPerSqm == 247105

\* 3.28084 feet in a metre, in units of 1e-5 foot
FeetPerMetre == 328084

polygonal(geom) == geom.gtype \in {"Polygon", "MultiPolygon"}

linear(geom) == geom.gtype \in {"LineString", "MultiLineString"}

\* GeoSeries.area in the metric system: nan for a missing geometry, zero
\* for what is no polygon
area(geom) ==
    IF isna(geom) THEN Null
    ELSE IF polygonal(geom) THEN Num(Cardinality(geom.pts)) ELSE Num(0)

\* GeoSeries.length: the length of a line, the perimeter of a polygon
length(geom) ==
    IF isna(geom) THEN Null
    ELSE IF geom.gtype = "Point" THEN Num(0)
    ELSE Num(Cardinality(geom.pts) + geom.verts)

scaled(v, factor) == IF v = Null THEN Null ELSE Num(v.n * factor)

\* gdf[name] = values: the column is overwritten, or added as the last one
set_column(frame, name, values) ==
    IF \E c \in 1..Len(frame.columns) : frame.columns[c] = name
    THEN LET c == CHOOSE c \in 1..Len(frame.columns) : frame.columns[c] = name
         IN  [frame EXCEPT !.rows =
                 [k \in 1..Len(frame.rows) |->
                     [frame.rows[k] EXCEPT !.values[c] = values[k]]]]
    ELSE [frame EXCEPT
             !.columns = Append(@, name),
             !.rows = [k \in 1..Len(frame.rows) |->
                          [frame.rows[k] EXCEPT
                              !.values = Append(@, values[k])]]]

add_area_length_fields(F, r) ==
    IF F[r].rows = <<>> \/ isna(F[r].rows[1].geometry) THEN Raised(F, r)
    ELSE LET first == F[r].rows[1].geometry
             geoms == geometries_of(F[r])
             row_area == [k \in 1..Len(geoms) |-> area(geoms[k])]
             row_acres == [k \in 1..Len(geoms) |->
                              scaled(area(geoms[k]), AcresPerSqm)]
             row_length == [k \in 1..Len(geoms) |-> length(geoms[k])]
             row_feet == [k \in 1..Len(geoms) |->
                             scaled(length(geoms[k]), FeetPerMetre)]
         IN  IF polygonal(first)
             THEN Returned([F EXCEPT ![r] =
                     set_column(set_column(@, area_sqm, row_area),
                                area_acres, row_acres)], r)
             ELSE IF linear(first)
             THEN Returned([F EXCEPT ![r] =
                     set_column(set_column(@, length_m, row_length),
                                length_ft, row_feet)], r)
             ELSE Returned(F, r)

(***************************************************************************)
(* Collections the functions are called on.  The points of the plane are   *)
(* 1..9 in WGS84 coordinates.                                               *)
(***************************************************************************)
MaxRows == 3

StatePlane == "EPSG:32100"

PolygonA == Shape("Polygon", TRUE, {1, 2}, 6)

PolygonInvalid == Shape("Polygon", FALSE, {2, 3}, 6)

LineA == Shape("LineString", TRUE, {3, 4}, 3)

PointA == Shape("Point", TRUE, {5}, 1)

Shapes == {PolygonA, PolygonInvalid, LineA, PointA, NoShape}

RawColumns == << <<"A", " ", "b">>, <<"a", "-", "B">> >>

\* a collection with these geometries, stored in the given CRS
Collection(shapes, crs) ==
    to_crs(FrameOf(WGS84, RawColumns,
                   [k \in 1..Len(shapes) |->
                       Row(k, shapes[k], <<Str(<<"a">>), Num(k)>>)]),
           crs)

BoundaryNear ==
    FrameOf(WGS84, <<>>,
            <<Row(1, Shape("Polygon", TRUE, {1, 2, 3}, 6), <<>>)>>)

\* two polygons, stored in Web Mercator coordinates
BoundaryTwoParts ==
    FrameOf(WEB_MERCATOR, <<>>,
            <<Row(1, Shape("Polygon", TRUE, {11, 12}, 6), <<>>),
              Row(2, Shape("Polygon", TRUE, {14}, 6), <<>>)>>)

\* a boundary that no geometry of the collections reaches
BoundaryFar ==
    FrameOf(WGS84, <<>>, <<Row(1, Shape("Polygon", TRUE, {9}, 6), <<>>)>>)

\* the rows of the cities dataset selected for a city that it does not hold
CityNotFound == FrameOf(WGS84, <<>>, <<>>)

\* clip_boundary=None
NoBoundary == FrameOf("none", <<>>, <<>>)

Call(entry, crs, fix, boundary, use_expansion) ==
    [entry |-> entry, crs |-> crs, fix |-> fix, boundary |-> boundary,
     use_expansion |-> use_expansion]

Calls ==
    {Call("validate_geometries", WGS84, fix, NoBoundary, FALSE) :
        fix \in BOOLEAN}
    \cup {Call(entry, WGS84, TRUE, NoBoundary, FALSE) :
        entry \in {"simplify_geometries", "clean_column_names"}}
    \cup {Call("add_area_length_fields", crs, TRUE, NoBoundary, FALSE) :
        crs \in {WGS84, StatePlane}}
    \cup {Call("clip_to_boundary", crs, TRUE, b, FALSE) :
        crs \in {WGS84, StatePlane},
        b \in {BoundaryNear, BoundaryTwoParts, BoundaryFar}}
    \cup {Call("transform_dataset", crs, TRUE, b, FALSE) :
        crs \in {WGS84, StatePlane},
        b \in {NoBoundary, BoundaryNear, BoundaryFar}}
    \cup {Call("transform_city_dataset", WGS84, TRUE, b, FALSE) :
        b \in {BoundaryNear, BoundaryFar, CityNotFound}}
    \cup {Call("clip_parcels_to_city", WGS84, TRUE, b, TRUE) :
        b \in {BoundaryNear, BoundaryTwoParts, BoundaryFar}}
    \cup {Call("clip_parcels_to_city", WGS84, TRUE, b, FALSE) :
        b \in {BoundaryNear, BoundaryFar, CityNotFound}}
    \cup {Call(entry, WGS84, TRUE, b, FALSE) :
        entry \in {"transform_all_for_city", "run_full_pipeline"},
        b \in {BoundaryNear, CityNotFound}}

\* the datasets that transform_all_for_city processes for every city
all_datasets ==
    <<"parcels", "roads", "waterways", "zoningdistricts", "cities",
      "firedistricts", "schooldistricts", "water_sewer_districts",
      "majorsubdivisions", "minorsubdivisions">>

\* how many of them a run of the model goes through
MaxDatasets == 2

\* largest number of features of a dataset that these two functions load
MaxPipelineRows == 2

\* the calls an entry point makes, in the order of its code;
\* validate_geometries and clip_to_boundary are called on a collection and
\* then on their own result
TransformStages ==
    <<"reproject", "clean", "validate", "dropna", "clip", "metrics",
      "simplify", "metadata">>

Program(entry) ==
    CASE entry = "validate_geometries" -> <<"validate", "validate">>
      [] entry = "simplify_geometries" -> <<"simplify">>
      [] entry = "clean_column_names" -> <<"clean">>
      [] entry = "add_area_length_fields" -> <<"metrics">>
      [] entry = "clip_to_boundary" -> <<"clip", "clip">>
      [] entry = "transform_dataset" -> TransformStages
      [] entry = "transform_city_dataset" -> <<"boundary">> \o TransformStages
      [] entry = "clip_parcels_to_city" ->
            <<"boundary", "clip", "nonempty", "validate", "metrics",
              "simplify", "metadata">>
      [] entry = "transform_all_for_city" ->
            [k \in 1..MaxDatasets |-> "dataset"] \o <<"summary">>
      [] entry = "run_full_pipeline" -> <<"extract", "transform", "complete">>
      [] OTHER -> <<>>

(***************************************************************************)
(* The entry points as a state machine.                                    *)
(*   frames  the heap of collections; a reference is a position in it      *)
(*   run     entry: the function called; step: the place in its program;   *)
(*           status: "running", "returned", "raised" ("idle": no call);    *)
(*           gdf: the collection the local variable holds; fix,            *)
(*           use_expansion, boundary: the arguments; error: the exception  *)
(*           and its message; before: the caller's collection as it was    *)
(*           at the call; rets: what every call made so far returned;      *)
(*           history: the stages executed, each with the collection held   *)
(*           after it and whether it raised; callers: the suspended calls  *)
(*           below the running one, innermost last; results: what          *)
(*           transform_all_for_city has collected, the names of the        *)
(*           datasets in the order of their insertion; caught: the         *)
(*           exceptions that a handler has swallowed                       *)
(* The caller's collection is frames[1].                                   *)
(***************************************************************************)
NoError == [type |-> "", message |-> ""]

Error(type, message) == [type |-> type, message |-> message]

Stage(stage, ret, raised) == [stage |-> stage, ret |-> ret, raised |-> raised]

StartRun(call, frame) ==
    [entry |-> call.entry, step |-> 1, status |-> "running", gdf |-> 1,
     fix |-> call.fix, use_expansion |-> call.use_expansion,
     boundary |-> call.boundary, error |-> NoError, before |-> frame,
     rets |-> <<>>, history |-> <<>>, callers |-> <<>>, results |-> <<>>,
     caught |-> {}]

GeoInit ==
    /\ \E shapes \in SeqsUpTo(Shapes, MaxRows) :
          \E call \in Calls :
              /\ call.entry \in {"transform_all_for_city", "run_full_pipeline"}
                    => Len(shapes) <= MaxPipelineRows
              /\ frames = <<Collection(shapes, call.crs)>>
              /\ run = StartRun(call, Collection(shapes, call.crs))
    /\ input = <<>>
    /\ pc = "idle"
    /\ i = 1
    /\ owner_groups = <<>>
    /\ no_owner = <<>>
    /\ g = 1
    /\ merged_features = <<>>

At(stage) ==
    run.status = "running" /\ Program(run.entry)[run.step] = stage

\* the run after a stage: res is what the call left, executed tells whether
\* the stage was run or skipped
after_stage(res, stage, executed, error) ==
    IF res.raised
    THEN [run EXCEPT !.status = "raised", !.error = error,
                     !.history = Append(@, Stage(stage, run.gdf, TRUE))]
    ELSE [run EXCEPT
             !.gdf = res.ret,
             !.step = @ + 1,
             !.status = IF run.step = Len(Program(run.entry))
                        THEN "returned" ELSE "running",
             !.rets = IF executed THEN Append(@, res.ret) ELSE @,
             !.history = IF executed
                         THEN Append(@, Stage(stage, res.ret, FALSE)) ELSE @]

Continue(res, stage, executed, error) ==
    /\ frames' = res.frames
    /\ run' = after_stage(res, stage, executed, error)
    /\ UNCHANGED merge_vars

InTransform == run.entry \in {"transform_dataset", "transform_city_dataset"}

\* gdf.geometry.geom_type.iloc[0] if len(gdf) > 0 else None
first_geom_type(frame) ==
    IF frame.rows = <<>> THEN "None" ELSE frame.rows[1].geometry.gtype

\* if gdf.crs != WGS84: gdf = gdf.to_crs(WGS84)
Reproject ==
    /\ At("reproject")
    /\ IF frames[run.gdf].crs # WGS84
       THEN Continue(Returned(Append(frames, to_crs(frames[run.gdf], WGS84)),
                              Len(frames) + 1),
                     "reproject", TRUE, NoError)
       ELSE Continue(Returned(frames, run.gdf), "reproject", FALSE, NoError)

CleanColumnNames ==
    /\ At("clean")
    /\ Continue(clean_column_names(frames, run.gdf), "clean", TRUE, NoError)

ValidateGeometries ==
    /\ At("validate")
    /\ Continue(validate_geometries(frames, run.gdf, run.fix), "validate",
                TRUE, NoError)

\* null_geoms > 0: gdf = gdf[~gdf.geometry.isna()].copy()
DropNullGeometries ==
    /\ At("dropna")
    /\ IF \E k \in 1..Len(frames[run.gdf].rows) :
             isna(frames[run.gdf].rows[k].geometry)
       THEN Continue(
               Returned(Append(frames,
                               [frames[run.gdf] EXCEPT !.rows =
                                   SelectSeq(@, LAMBDA row : ~isna(row.geometry))]),
                        Len(frames) + 1),
               "dropna", TRUE, NoError)
       ELSE Continue(Returned(frames, run.gdf), "dropna", FALSE, NoError)

\* the boundary of the city: raise when the cities dataset does not hold it;
\* clip_parcels_to_city reads the expansion file instead when use_expansion,
\* and brings the boundary to WGS84
GetBoundary ==
    /\ At("boundary")
    /\ IF ~run.use_expansion /\ Len(run.boundary.rows) = 0
       THEN run' = [run EXCEPT !.status = "raised",
                               !.error = Error("ValueError", "City not found"),
                               !.history =
                                   Append(@, Stage("boundary", run.gdf, TRUE))]
       ELSE run' = [run EXCEPT
                       !.step = @ + 1,
                       !.history =
                           Append(@, Stage("boundary", run.gdf, FALSE)),
                       !.boundary =
                           IF run.entry = "clip_parcels_to_city"
                              /\ run.boundary.crs # WGS84
                           THEN to_crs(run.boundary, WGS84) ELSE @]
    /\ UNCHANGED frames
    /\ UNCHANGED merge_vars

\* the mask clip_to_boundary clips with
clip_mask(frame, boundary) ==
    boundary_union(IF frame.crs # boundary.crs
                   THEN to_crs(boundary, frame.crs) ELSE boundary)

ClipToBoundary ==
    /\ At("clip")
    /\ IF run.boundary = NoBoundary
       THEN Continue(Returned(frames, run.gdf), "clip", FALSE, NoError)
       ELSE LET frame == frames[run.gdf]
                mask == clip_mask(frame, run.boundary)
            IN  \E order \in clip_orders(clip_candidates(frame, mask)) :
                \E engine_raises \in {FALSE, clip_may_raise(frame, mask)} :
                    Continue(clip_to_boundary(frames, run.gdf, run.boundary,
                                              order, engine_raises),
                             "clip", TRUE,
                             Error("GEOSException", "TopologyException"))

\* empty_clip_raises letting an empty clip result pass
empty_clip_raises_never(frame) == FALSE

\* if len(clipped) == 0
empty_clip_raises(frame) == Len(frame.rows) = 0

\* if len(clipped) == 0: raise ValueError("Clipping resulted in 0 parcels")
CheckNonEmpty ==
    /\ At("nonempty")
    /\ Continue(IF empty_clip_raises(frames[run.gdf])
                THEN Raised(frames, run.gdf) ELSE Returned(frames, run.gdf),
                "nonempty", FALSE,
                Error("ValueError", "Clipping resulted in 0 parcels"))

AddAreaLengthFields ==
    /\ At("metrics")
    /\ IF InTransform
          /\ first_geom_type(frames[run.gdf]) \notin
                {"Polygon", "MultiPolygon", "LineString", "MultiLineString"}
       THEN Continue(Returned(frames, run.gdf), "metrics", FALSE, NoError)
       ELSE Continue(add_area_length_fields(frames, run.gdf), "metrics", TRUE,
                     IF frames[run.gdf].rows = <<>>
                     THEN Error("IndexError", "") ELSE Error("TypeError", ""))

SimplifyGeometries ==
    /\ At("simplify")
    /\ IF InTransform
          /\ first_geom_type(frames[run.gdf]) \notin
                {"Polygon", "MultiPolygon", "LineString", "MultiLineString"}
       THEN Continue(Returned(frames, run.gdf), "simplify", FALSE, NoError)
       ELSE \E zero_division_raises \in BOOLEAN :
               Continue(simplify_geometries(frames, run.gdf,
                                            zero_division_raises),
                        "simplify", TRUE,
                        IF vertex_count_raises(frames[run.gdf])
                        THEN Error("AttributeError", "")
                        ELSE Error("ZeroDivisionError", ""))

dataset == <<"d", "a", "t", "a", "s", "e", "t">>

source == <<"s", "o", "u", "r", "c", "e">>

city == <<"c", "i", "t", "y">>

\* gdf['dataset'] = ..., gdf['source'] = ..., and clipped['city'] = city
add_metadata(F, r, with_city) ==
    LET dataset_name == [k \in 1..Len(F[r].rows) |-> Str(<<"p">>)]
        source_name == [k \in 1..Len(F[r].rows) |-> Str(<<"g">>)]
        city_name == [k \in 1..Len(F[r].rows) |-> Str(<<"t">>)]
        marked == set_column(set_column(F[r], dataset, dataset_name),
                             source, source_name)
    IN  Returned([F EXCEPT ![r] =
                     IF with_city THEN set_column(marked, city, city_name)
                     ELSE marked], r)

AddMetadata ==
    /\ At("metadata")
    /\ Continue(add_metadata(frames, run.gdf,
                             run.entry = "clip_parcels_to_city"),
                "metadata", TRUE, NoError)

\* a suspended call: the function, the stage at which it made the call, and
\* its stages so far
Suspended(entry, step, history) ==
    [entry |-> entry, step |-> step, history |-> history]

\* the call of a function of the pipeline from the stage the run is at
call_from_stage(entry) ==
    [run EXCEPT
        !.callers = Append(@, Suspended(run.entry, run.step, run.history)),
        !.entry = entry, !.step = 1, !.gdf = 1, !.rets = <<>>,
        !.history = <<>>]

\* the running call is over and control is back in its caller, one stage on
back_in_caller(raised) ==
    LET caller == run.callers[Len(run.callers)]
    IN  [run EXCEPT
            !.callers = SubSeq(@, 1, Len(@) - 1),
            !.entry = caller.entry, !.step = caller.step + 1,
            !.status = "running", !.gdf = 1, !.rets = <<>>,
            !.error = NoError,
            !.history =
                Append(caller.history,
                       Stage(Program(caller.entry)[caller.step], 1, raised))]

\* run_full_pipeline, stage 1: raise FileNotFoundError when the raw data
\* directory is missing; the handler of the function logs and raises again
Extract ==
    /\ At("extract")
    /\ \E raw_dir_exists \in BOOLEAN :
          Continue(IF raw_dir_exists THEN Returned(frames, run.gdf)
                   ELSE Raised(frames, run.gdf),
                   "extract", TRUE, Error("FileNotFoundError", "raw"))

\* datasets = transform_all_for_city(city, county)
CallTransformAllForCity ==
    /\ At("transform")
    /\ run' = call_from_stage("transform_all_for_city")
    /\ UNCHANGED frames
    /\ UNCHANGED merge_vars

\* one pass of the loop over all_datasets: transform_city_dataset is called
\* and loads the dataset; a dataset without file raises FileNotFoundError,
\* which the loop logs as skipped
CallTransformCityDataset ==
    /\ At("dataset")
    /\ \E available \in BOOLEAN :
          IF available
          THEN /\ run' = call_from_stage("transform_city_dataset")
               /\ frames' = <<run.before>>
          ELSE /\ run' = [run EXCEPT
                            !.step = @ + 1,
                            !.caught =
                                @ \cup {Error("FileNotFoundError", "")},
                            !.history = Append(@, Stage("dataset", 1, TRUE))]
               /\ UNCHANGED frames
    /\ UNCHANGED merge_vars

\* a call made from a stage has returned: results[dataset_name] = gdf in
\* transform_all_for_city
ReturnToCaller ==
    /\ run.status = "returned"
    /\ run.callers # <<>>
    /\ LET caller == run.callers[Len(run.callers)]
       IN  run' = [back_in_caller(FALSE) EXCEPT
                      !.results =
                          IF caller.entry = "transform_all_for_city"
                          THEN Append(@, all_datasets[caller.step])
                          ELSE @]
    /\ frames' = <<run.before>>
    /\ UNCHANGED merge_vars

\* except Exception as e: logger.error(...), and the loop goes on
CatchDatasetError ==
    /\ run.status = "raised"
    /\ run.callers # <<>>
    /\ run.callers[Len(run.callers)].entry = "transform_all_for_city"
    /\ run' = [back_in_caller(TRUE) EXCEPT !.caught = @ \cup {run.error}]
    /\ frames' = <<run.before>>
    /\ UNCHANGED merge_vars

\* the summary is logged and results is returned
Summary ==
    /\ At("summary")
    /\ run' = [run EXCEPT
                  !.step = @ + 1, !.status = "returned",
                  !.history = Append(@, Stage("summary", 1, FALSE))]
    /\ UNCHANGED frames
    /\ UNCHANGED merge_vars

\* stage 3 and the summary of run_full_pipeline: PIPELINE COMPLETE is logged
\* and datasets is returned
Complete ==
    /\ At("complete")
    /\ run' = [run EXCEPT
                  !.step = @ + 1, !.status = "returned",
                  !.history = Append(@, Stage("complete", 1, FALSE))]
    /\ UNCHANGED frames
    /\ UNCHANGED merge_vars

GeoNext ==
    \/ Reproject
    \/ CleanColumnNames
    \/ ValidateGeometries
    \/ DropNullGeometries
    \/ GetBoundary
    \/ ClipToBoundary
    \/ CheckNonEmpty
    \/ AddAreaLengthFields
    \/ SimplifyGeometries
    \/ AddMetadata
    \/ Extract
    \/ CallTransformAllForCity
    \/ CallTransformCityDataset
    \/ ReturnToCaller
    \/ CatchDatasetError
    \/ Summary
    \/ Complete

GeoSpec == GeoInit /\ [][GeoNext]_vars

(***************************************************************************)
(* Vocabulary of the properties.                                           *)
(***************************************************************************)
Range(s) == {s[k] : k \in DOMAIN s}

Positions == 1..Len(input)

OutputIndices == 1..Len(merged_features)

\* the output features made from two or more input features
MergedOutputs == {x \in OutputIndices : Len(merged_features[x].src) >= 2}

\* the output features that input position p went into
OutputsOf(p) == {x \in OutputIndices : p \in Range(merged_features[x].src)}

Parses(p) == input[p].geometry.kind = "ok"

\* the owner name as stored: the lower-case field, else the upper-case one
StoredOwner(f) ==
    IF f.has_properties # "map" THEN Null
    ELSE IF "ownername" \in DOMAIN f.properties
            /\ f.properties["ownername"] \notin {Null, Str(<<>>)}
         THEN f.properties["ownername"]
         ELSE IF "OWNERNAME" \in DOMAIN f.properties
              THEN f.properties["OWNERNAME"] ELSE Null

StoredAddress(f) ==
    IF f.has_properties # "map" THEN Null
    ELSE IF "citystatez" \in DOMAIN f.properties
            /\ f.properties["citystatez"] \notin {Null, Str(<<>>)}
         THEN f.properties["citystatez"]
         ELSE IF "CITYSTATEZ" \in DOMAIN f.properties
              THEN f.properties["CITYSTATEZ"] ELSE Null

\* trimmed and upper-cased; the empty string for a missing or null value
Normalized(v) == IF v.t = "str" THEN upper(strip(v.s)) ELSE <<>>

\* absent, empty or whitespace-only owner name
BlankOwner(f) ==
    \/ StoredOwner(f) = Null
    \/ /\ StoredOwner(f).t = "str"
       /\ \A k \in 1..Len(StoredOwner(f).s) : StoredOwner(f).s[k] = " "

\* features whose owner name and tax address are strings or missing
WellTyped(f) ==
    /\ f.has_properties # "null"
    /\ StoredOwner(f).t \in {"null", "str"}
    /\ StoredAddress(f).t \in {"null", "str"}

GroupIndices == 1..Len(owner_groups)

GroupPositions(k) == Range(owner_groups[k].features)

\* no edge when the test of the pair raised; otherwise a common point
\* (touching: on the boundary only; intersecting: anywhere)
Linked(p, q) ==
    /\ p # q
    /\ ~input[p].geometry.predErr
    /\ ~input[q].geometry.predErr
    /\ input[p].geometry.pts \cap input[q].geometry.pts # {}

\* the connected component of p inside ps: the least set holding p that is
\* closed under Linked
ComponentOf(p, ps) ==
    {q \in ps :
        \A T \in SUBSET ps :
            (p \in T /\ \A a \in T : \A b \in ps : Linked(a, b) => b \in T)
                => q \in T}

Components(ps) == {ComponentOf(p, ps) : p \in ps}

\* what the member at place k of output x contributes to a field: its value
\* when parseable, nothing when null, missing or unparseable
MemberValue(x, field, k) ==
    LET f == input[merged_features[x].src[k]]
    IN  IF field \in DOMAIN f.properties
           /\ f.properties[field] # Null
           /\ float(f.properties[field]).ok
        THEN float(f.properties[field]).v ELSE 0

RECURSIVE MemberSumUpTo(_, _, _)
MemberSumUpTo(x, field, k) ==
    IF k = 0 THEN 0
    ELSE MemberSumUpTo(x, field, k - 1) + MemberValue(x, field, k)

\* sum of the parseable values of a field over the members of output x
MemberSum(x, field) == MemberSumUpTo(x, field, Len(merged_features[x].src))

\* the plain sum of the areas of the members at places 1..k of src
RECURSIVE AreaSumUpTo(_, _)
AreaSumUpTo(src, k) ==
    IF k = 0 THEN 0
    ELSE AreaSumUpTo(src, k - 1) + Cardinality(input[src[k]].geometry.inter)

NumericFieldNames == Range(numeric_fields)

FirstMember(x) == input[merged_features[x].src[1]]

UnionFails(x) ==
    \E p \in Range(merged_features[x].src) : input[p].geometry.unionErr

(***************************************************************************)
(* Properties of merge_parcels.                                            *)
(***************************************************************************)

\* C1: in every owner group of more than one feature, every feature whose
\* geometry failed to parse is in the output exactly once, unmerged and
\* unchanged, the unparsed features of a group in their input order; no
\* input feature is missing from the output.
C1_UnparsedRetained ==
    pc = "done" =>
        /\ \A k \in GroupIndices :
              Len(owner_groups[k].features) > 1 =>
                 \A p \in GroupPositions(k) :
                    ~Parses(p) =>
                       /\ Cardinality(OutputsOf(p)) = 1
                       /\ \A x \in OutputsOf(p) :
                             merged_features[x] =
                                [feature |-> input[p], src |-> <<p>>]
                       /\ \A q \in GroupPositions(k) :
                             (~Parses(q) /\ p < q) =>
                                \A x \in OutputsOf(p) :
                                   \A y \in OutputsOf(q) : x < y
        /\ \A p \in Positions : OutputsOf(p) # {}

\* C2: for an owner group whose geometries all parse, the output features
\* of the group are exactly the connected components of the group under the
\* touch-or-intersect relation (two features with a common point, a pair
\* whose test raised counting as not linked), one output feature for each
\* component and every member once.
C2_ComponentsMerged ==
    pc = "done" =>
        \A k \in GroupIndices :
            (\A p \in GroupPositions(k) : Parses(p)) =>
                LET ps == GroupPositions(k)
                    outs == {x \in OutputIndices :
                                Range(merged_features[x].src) \cap ps # {}}
                IN  /\ {Range(merged_features[x].src) : x \in outs}
                          = Components(ps)
                    /\ Cardinality(outs) = Cardinality(Components(ps))
                    /\ \A x \in outs :
                          Len(merged_features[x].src)
                             = Cardinality(Range(merged_features[x].src))

\* C2 witness: a finished run that merged a chain: two members of one merged
\* feature have no common point and are linked through a third
C2_Witness ==
    /\ pc = "done"
    /\ \E x \in MergedOutputs :
          /\ \A p \in Range(merged_features[x].src) : Parses(p)
          /\ \E p, q \in Range(merged_features[x].src) :
                p # q /\ ~Linked(p, q)

\* C3: in a merged feature every recognized numeric field whose sum over
\* the members' parseable values is greater than zero holds that sum.
C3_PositiveSumWritten ==
    pc = "done" =>
        \A x \in MergedOutputs :
            \A field \in NumericFieldNames :
                MemberSum(x, field) > 0 =>
                    /\ field \in DOMAIN merged_features[x].feature.properties
                    /\ merged_features[x].feature.properties[field]
                          = Num(MemberSum(x, field))

\* C3 witness: acreages 3.0, 2.5 and null merged into 5.5 (in tenths)
C3_Witness ==
    /\ pc = "done"
    /\ \E x \in MergedOutputs :
          /\ Len(merged_features[x].src) = 3
          /\ \E a, b, c \in 1..3 :
                /\ get(input[merged_features[x].src[a]].properties,
                       "gisacres") = Num(30)
                /\ get(input[merged_features[x].src[b]].properties,
                       "gisacres") = Num(25)
                /\ "gisacres" \in
                      DOMAIN input[merged_features[x].src[c]].properties
                /\ input[merged_features[x].src[c]].properties["gisacres"]
                      = Null
          /\ merged_features[x].feature.properties["gisacres"] = Num(55)

C5_GeometryIsUnion ==
    pc = "done" =>
        \A x \in MergedOutputs :
            ~UnionFails(x) =>
                LET geom == merged_features[x].feature.geometry
                    src == merged_features[x].src
                    overlap == \E a, b \in DOMAIN src :
                                  /\ a < b
                                  /\ input[src[a]].geometry.inter
                                        \cap input[src[b]].geometry.inter # {}
                    total == AreaSumUpTo(src, Len(src))
                IN  /\ geom.kind = "ok"
                    /\ geom.pts = UNION {input[p].geometry.pts : p \in Range(src)}
                    /\ geom.inter =
                          UNION {input[p].geometry.inter : p \in Range(src)}
                    /\ Cardinality(geom.inter) <= total
                    /\ overlap => Cardinality(geom.inter) < total

\* C5 witness: two overlapping members merged, the union succeeding
C5_Witness ==
    /\ pc = "done"
    /\ \E x \in MergedOutputs :
          /\ ~UnionFails(x)
          /\ \E p, q \in Range(merged_features[x].src) :
                /\ p # q
                /\ input[p].geometry.inter \cap input[q].geometry.inter # {}
                /\ input[p].geometry.pts # input[q].geometry.pts

\* C6: a feature whose owner name is absent, empty or whitespace-only is
\* never placed in an owner group; when the run has finished it is in the
\* output exactly once, unmerged and unchanged, and no output of an owner
\* group follows it.
C6_NoOwnerResidual ==
    \A p \in Positions :
        (WellTyped(input[p]) /\ BlankOwner(input[p])) =>
            /\ \A k \in GroupIndices : p \notin GroupPositions(k)
            /\ pc = "done" =>
                  /\ Cardinality(OutputsOf(p)) = 1
                  /\ \A x \in OutputsOf(p) :
                        /\ merged_features[x] =
                              [feature |-> input[p], src |-> <<p>>]
                        /\ \A y \in OutputIndices :
                              y > x =>
                                 \A q \in Range(merged_features[y].src) :
                                    BlankOwner(input[q])

\* C6 witness: a finished run whose input holds a feature with a
\* whitespace-only owner name ahead of two features that were merged
C6_Witness ==
    /\ pc = "done"
    /\ MergedOutputs # {}
    /\ \E p \in Positions :
          /\ input[p].has_properties = "map"
          /\ get(input[p].properties, "ownername") = Str(<<" ">>)
          /\ \A x \in MergedOutputs :
                \A q \in Range(merged_features[x].src) : p < q
          /\ OutputsOf(p) = {Len(merged_features)}

\* C7: two input features are members of one merged output feature only if
\* their owner names are equal and their tax addresses are equal after
\* trimming and upper-casing.
C7_MergedSameOwnerAndAddress ==
    pc = "done" =>
        \A x \in MergedOutputs :
            \A p, q \in Range(merged_features[x].src) :
                /\ Normalized(StoredOwner(input[p]))
                      = Normalized(StoredOwner(input[q]))
                /\ Normalized(StoredAddress(input[p]))
                      = Normalized(StoredAddress(input[q]))

\* C8: two grouped features whose owner names are equal and whose tax
\* addresses are equal after trimming and upper-casing, under either
\* spelling of the field names, are in the same owner group, and the
\* features of every owner group are in input order.
C8_GroupingNormalized ==
    /\ \A p, q \in 1..(i - 1) :
          ( /\ p < q
            /\ WellTyped(input[p]) /\ WellTyped(input[q])
            /\ ~BlankOwner(input[p]) /\ ~BlankOwner(input[q])
            /\ Normalized(StoredOwner(input[p]))
                  = Normalized(StoredOwner(input[q]))
            /\ Normalized(StoredAddress(input[p]))
                  = Normalized(StoredAddress(input[q])) )
          => \E k \in GroupIndices : {p, q} \subseteq GroupPositions(k)
    /\ \A k \in GroupIndices :
          \A a, b \in 1..Len(owner_groups[k].features) :
              a < b => owner_groups[k].features[a] < owner_groups[k].features[b]

\* C8 witness: the grouping loop has put a feature with the owner name in
\* lower case under 'ownername' and a later one with the padded upper-case
\* name under 'OWNERNAME' into one group
C8_Witness ==
    /\ pc = "process"
    /\ \E k \in GroupIndices :
          \E p, q \in GroupPositions(k) :
              /\ p < q
              /\ get(input[p].properties, "ownername") = Str(<<"a">>)
              /\ "ownername" \notin DOMAIN input[q].properties
              /\ get(input[q].properties, "OWNERNAME")
                    = Str(<<" ", "A", " ">>)

\* the first input position of the owner group that position p is in
FirstOfGroup(p) ==
    LET k == CHOOSE k \in GroupIndices : p \in GroupPositions(k)
    IN  CHOOSE m \in GroupPositions(k) : \A r \in GroupPositions(k) : m <= r

Grouped(p) == \E k \in GroupIndices : p \in GroupPositions(k)

\* C9: the output lists the features of the owner groups, group after
\* group in the order in which the groups first appear in the input, and
\* after them every feature without owner in input order.
C9_OutputOrder ==
    pc = "done" =>
        /\ \A x, y \in OutputIndices :
              x < y =>
                 LET a == merged_features[x].src[1]
                     b == merged_features[y].src[1]
                 IN  /\ (Grouped(a) /\ Grouped(b))
                            => FirstOfGroup(a) <= FirstOfGroup(b)
                     /\ ~Grouped(a) => (~Grouped(b) /\ a < b)
        /\ \A x \in OutputIndices :
              \A p \in Range(merged_features[x].src) :
                  Grouped(p) = Grouped(merged_features[x].src[1])
        /\ LET tail == SelectSeq(merged_features,
                                 LAMBDA o : ~Grouped(o.src[1]))
           IN  tail = [k \in 1..Len(no_owner) |->
                          [feature |-> input[no_owner[k]],
                           src |-> <<no_owner[k]>>]]
        /\ \A p \in Positions : ~Grouped(p) => \E k \in 1..Len(no_owner) :
                                                  no_owner[k] = p

\* C9 witness: a finished run with two owner groups in which a feature
\* without owner comes first in the input and last in the output
C9_Witness ==
    /\ pc = "done"
    /\ Len(owner_groups) = 2
    /\ no_owner = <<1>>
    /\ Len(merged_features) = 3
    /\ merged_features[3].src = <<1>>

\* C10: when the union of a component raises, the feature emitted for the
\* component has the point set of its first member (as repaired), and every
\* parsed feature of every owner group is still in the output: every
\* component of every group has been emitted.
C10_UnionFailureFallsBack ==
    pc = "done" =>
        \A x \in MergedOutputs :
            UnionFails(x) =>
                /\ merged_features[x].feature.geometry.kind = "ok"
                /\ merged_features[x].feature.geometry.pts
                      = FirstMember(x).geometry.pts
                /\ merged_features[x].feature.geometry.inter
                      = FirstMember(x).geometry.inter
                /\ \A k \in GroupIndices :
                      LET ps == {p \in GroupPositions(k) : Parses(p)}
                      IN  Cardinality(ps) >= 2 =>
                             \A p \in ps :
                                \E y \in OutputIndices :
                                   Range(merged_features[y].src)
                                      = ComponentOf(p, ps)
                /\ \A k \in GroupIndices :
                      Cardinality(GroupPositions(k)) = 1 =>
                         \A p \in GroupPositions(k) : OutputsOf(p) # {}
                /\ \A p \in Range(no_owner) : OutputsOf(p) # {}

\* C10 witness: a finished run in which the union of one component raised,
\* the first member of the component is not its last, and another
\* component or owner group was emitted after it
C10_Witness ==
    /\ pc = "done"
    /\ \E x \in MergedOutputs :
          /\ UnionFails(x)
          /\ FirstMember(x).geometry.pts
                # input[merged_features[x].src[
                     Len(merged_features[x].src)]].geometry.pts
          /\ x < Len(merged_features)
          /\ Grouped(merged_features[Len(merged_features)].src[1])

\* the parsed positions of owner group k
ParsedPositions(k) == {p \in GroupPositions(k) : Parses(p)}

\* the geometry engine raises while testing the pair
RaisingPair(p, q) ==
    p # q /\ (input[p].geometry.predErr \/ input[q].geometry.predErr)

\* C11: an exception of the geometry engine while a pair is tested never
\* leaves find_adjacent_groups: merge_parcels finishes, in an owner group with
\* a raising pair every parsed feature is in exactly one output (the grouping
\* covers all n indices), the raising pair counts as no edge and every other
\* pair is still tested, so two features share an output exactly when a path
\* of non-raising touching or intersecting pairs connects them.
C11_PredicateFailureIsNoEdge ==
    pc = "done" =>
        \A k \in GroupIndices :
            (\E p, q \in ParsedPositions(k) : RaisingPair(p, q)) =>
                /\ \A p \in ParsedPositions(k) : Cardinality(OutputsOf(p)) = 1
                /\ \A p, q \in ParsedPositions(k) :
                      (OutputsOf(p) = OutputsOf(q))
                          <=> q \in ComponentOf(p, ParsedPositions(k))

\* a pair that shares a point is kept apart because its test raised, while a
\* pair tested after it in the same group is merged
C11_Witness ==
    /\ pc = "done"
    /\ \E k \in GroupIndices :
          \E p, q, r \in ParsedPositions(k) :
              /\ p < q /\ q < r
              /\ RaisingPair(p, q)
              /\ input[p].geometry.pts \cap input[q].geometry.pts # {}
              /\ OutputsOf(p) # OutputsOf(q)
              /\ Linked(p, r)
              /\ OutputsOf(p) = OutputsOf(r)

\* C12: no defect of a single feature ends a merge_parcels run: no exception
\* leaves merge_parcels, whatever the properties object, the owner name, the
\* tax address or the geometry of a feature is, and when the run has returned
\* every feature without defect is in the output.
C12_NoDefectTerminates ==
    /\ pc # "raised"
    /\ pc = "done" =>
          \A p \in Positions :
              (WellTyped(input[p]) /\ Parses(p)) => OutputsOf(p) # {}

\* the two spellings of every recognized numeric field
NumericSpellings ==
    { <<"gisacres", "GISACRES">>, <<"totalvalue", "TOTALVALUE">>,
      <<"landvalue", "LANDVALUE">>, <<"improvvalue", "IMPROVVALUE">> }

\* the member at place k of output x stores the field under this spelling
Stores(x, field, k) ==
    field \in DOMAIN input[merged_features[x].src[k]].properties

\* the value of the member under whichever spelling it uses
RECURSIVE EitherSpellingSumUpTo(_, _, _)
EitherSpellingSumUpTo(x, pair, k) ==
    IF k = 0 THEN 0
    ELSE EitherSpellingSumUpTo(x, pair, k - 1)
         + (IF Stores(x, pair[1], k) THEN MemberValue(x, pair[1], k)
            ELSE MemberValue(x, pair[2], k))

\* C13: recognized numeric fields are matched case-insensitively: in a merged
\* feature whose members store a field partly under the lower-case and partly
\* under the upper-case name, the value of the field is the sum of the values
\* of all members, whichever spelling each member uses.
C13_SumAcrossSpellings ==
    pc = "done" =>
        \A x \in MergedOutputs :
            \A pair \in NumericSpellings :
                LET n == Len(merged_features[x].src)
                    total == EitherSpellingSumUpTo(x, pair, n)
                    props == merged_features[x].feature.properties
                IN  ( /\ \E k \in 1..n : Stores(x, pair[1], k)
                      /\ \E k \in 1..n : ~Stores(x, pair[1], k)
                                         /\ Stores(x, pair[2], k)
                      /\ total > 0 )
                    => \/ get(props, pair[1]) = Num(total)
                       \/ get(props, pair[2]) = Num(total)

\* the parcel identifier as stored: the lower-case field, else the upper-case
\* one, null when the feature has neither
StoredParcelId(f) ==
    IF "parcelid" \in DOMAIN f.properties
       /\ f.properties["parcelid"] \notin {Null, Str(<<>>)}
    THEN f.properties["parcelid"]
    ELSE IF "PARCELID" \in DOMAIN f.properties
         THEN f.properties["PARCELID"] ELSE Null

MergeMetadataFields == {"_merged_count", "_merged_parcels"}

\* C14: every output made by merging k >= 2 features carries _merged_count = k
\* and a _merged_parcels list of length k whose i-th entry is the parcel
\* identifier of the i-th member (lower-case field, else upper-case field, null
\* without identifier); an output made from one input feature carries neither
\* field.
C14_MergeMetadata ==
    pc = "done" =>
        \A x \in OutputIndices :
            LET src == merged_features[x].src
                f == merged_features[x].feature
            IN  IF Len(src) >= 2
                THEN /\ f.has_properties = "map"
                     /\ MergeMetadataFields \subseteq DOMAIN f.properties
                     /\ f.properties["_merged_count"] = Num(Len(src))
                     /\ f.properties["_merged_parcels"].t = "list"
                     /\ Len(f.properties["_merged_parcels"].l) = Len(src)
                     /\ \A k \in 1..Len(src) :
                           f.properties["_merged_parcels"].l[k]
                               = StoredParcelId(input[src[k]])
                ELSE MergeMetadataFields \cap DOMAIN f.properties = {}

\* a merged feature with a member identified by the lower-case field, one by
\* the upper-case field and one without identifier, next to an unmerged output
C14_Witness ==
    /\ pc = "done"
    /\ \E x \in MergedOutputs :
          LET src == merged_features[x].src
          IN  /\ \E k \in 1..Len(src) :
                    "parcelid" \in DOMAIN input[src[k]].properties
                    /\ StoredParcelId(input[src[k]]) # Null
              /\ \E k \in 1..Len(src) :
                    "PARCELID" \in DOMAIN input[src[k]].properties
              /\ \E k \in 1..Len(src) : StoredParcelId(input[src[k]]) = Null

ValidGeoms(k) ==
    parsed_geometries([m \in 1..Len(owner_groups[k].features) |->
                          input[owner_groups[k].features[m]]])

\* the owner groups that the loop over owner_groups has gone through
ProcessedGroups == {k \in GroupIndices : k < g}

\* the edge relation on the indices of a list of geometries: the test of the
\* pair raised nothing and the two have a common point (touching: on the
\* boundary only; intersecting: anywhere)
EdgeBetween(geometries, a, b) ==
    /\ a # b
    /\ ~geometries[a].predErr
    /\ ~geometries[b].predErr
    /\ geometries[a].pts \cap geometries[b].pts # {}

\* the indices connected to a by a path of edges: the least set holding a
\* that is closed under the edge relation
ReachableFrom(geometries, a) ==
    LET N == 1..Len(geometries)
    IN  {b \in N :
            \A T \in SUBSET N :
                ( /\ a \in T
                  /\ \A c \in T : \A d \in N :
                        EdgeBetween(geometries, c, d) => d \in T )
                    => b \in T}

\* the places of a list of groups at which index a occurs
Occurrences(groups, a) ==
    UNION {{<<c, m>> : m \in {m \in DOMAIN groups[c] : groups[c][m] = a}} :
           c \in DOMAIN groups}

SameGroup(groups, a, b) ==
    \E c \in DOMAIN groups : {a, b} \subseteq Range(groups[c])

\* C24: for every list of n geometries find_adjacent_groups terminates with a
\* partition of the n indices: every index occurs in exactly one group and
\* once, no other index occurs, and two indices are in the same group exactly
\* when a path of edges connects them (the groups are the maximal connected
\* components of the adjacency relation).
C24_GroupsAreComponents ==
    \A k \in ProcessedGroups :
        LET geometries == ValidGeoms(k)
            groups == find_adjacent_groups(geometries)
            N == 1..Len(geometries)
        IN  /\ \A c \in DOMAIN groups : Range(groups[c]) \subseteq N
            /\ \A a \in N : Cardinality(Occurrences(groups, a)) = 1
            /\ \A a, b \in N :
                  SameGroup(groups, a, b)
                      <=> b \in ReachableFrom(geometries, a)

\* find_adjacent_groups has put three geometries of an owner group into one
\* group although two of them have no edge between them
C24_Witness ==
    \E k \in ProcessedGroups :
        LET geometries == ValidGeoms(k)
            groups == find_adjacent_groups(geometries)
        IN  /\ Len(geometries) = 3
            /\ Len(groups) = 1
            /\ \E a, b \in 1..3 :
                  a # b /\ ~EdgeBetween(geometries, a, b)

\* C25: the adjacency relation that find_adjacent_groups builds is an
\* undirected graph on the indices: j is in the adjacency set of i exactly
\* when i is in that of j, no index is adjacent to itself, and for i # j the
\* edge exists exactly when the test of the pair raised no exception and the
\* two geometries touch or intersect.
C25_AdjacencyIsUndirected ==
    \A k \in ProcessedGroups :
        LET geometries == ValidGeoms(k)
            adj == adjacent(geometries)
            N == 1..Len(geometries)
        IN  /\ DOMAIN adj = N
            /\ \A a \in N : adj[a] \subseteq N /\ a \notin adj[a]
            /\ \A a, b \in N : b \in adj[a] <=> a \in adj[b]
            /\ \A a, b \in N :
                  a # b =>
                     (b \in adj[a] <=>
                        /\ ~predicate_raises(geometries[a], geometries[b])
                        /\ \/ touches(geometries[a], geometries[b])
                           \/ intersects(geometries[a], geometries[b]))
            /\ \A a, b \in N : b \in adj[a] <=> EdgeBetween(geometries, a, b)

\* an owner group with a pair that touches without overlapping and has an
\* edge, and a pair that has a common point and no edge because its test
\* raised
C25_Witness ==
    \E k \in ProcessedGroups :
        LET geometries == ValidGeoms(k)
            adj == adjacent(geometries)
            N == 1..Len(geometries)
        IN  /\ \E a, b \in N :
                  /\ a < b
                  /\ b \in adj[a]
                  /\ geometries[a].inter \cap geometries[b].inter = {}
            /\ \E a, b \in N :
                  /\ a < b
                  /\ b \notin adj[a]
                  /\ predicate_raises(geometries[a], geometries[b])
                  /\ geometries[a].pts \cap geometries[b].pts # {}

\* the smallest input position among the members of output x
SmallestMember(x) ==
    CHOOSE p \in Range(merged_features[x].src) :
        \A q \in Range(merged_features[x].src) : p <= q

\* C26: the ordering that find_adjacent_groups produces is input order: the
\* components of an owner group are listed in ascending order of their
\* smallest index, and inside every component the members are listed in
\* ascending index order, so the members handed to merge_features and the
\* identifiers in _merged_parcels follow input order.
C26_MembersInInputOrder ==
    pc = "done" =>
        /\ \A x \in OutputIndices :
              \A a, b \in 1..Len(merged_features[x].src) :
                  a < b => merged_features[x].src[a] < merged_features[x].src[b]
        /\ \A x, y \in OutputIndices :
              ( /\ x < y
                /\ \E k \in GroupIndices :
                      Range(merged_features[x].src)
                         \cup Range(merged_features[y].src)
                            \subseteq GroupPositions(k) )
              => SmallestMember(x) < SmallestMember(y)

NotNumericOrMetadata(field) ==
    field \notin NumericFieldNames \cup MergeMetadataFields

\* C27: the properties of a merged feature start from the property map of the
\* member that comes first in input order (the smallest index of the
\* component): every property of the merged feature other than the recognized
\* numeric fields and the two merge metadata fields has exactly that member's
\* value, every such property of that member is kept, and no property that
\* only another member has appears in the merged feature.
C27_PropertiesOfFirstMember ==
    pc = "done" =>
        \A x \in MergedOutputs :
            LET props == merged_features[x].feature.properties
                first == input[SmallestMember(x)].properties
            IN  /\ merged_features[x].src[1] = SmallestMember(x)
                /\ \A field \in DOMAIN props :
                      NotNumericOrMetadata(field) =>
                         /\ field \in DOMAIN first
                         /\ props[field] = first[field]
                /\ \A field \in DOMAIN first :
                      NotNumericOrMetadata(field) => field \in DOMAIN props

\* a merged feature whose first member has an identifier, while another
\* member has a property that the first has not
C27_Witness ==
    /\ pc = "done"
    /\ \E x \in MergedOutputs :
          /\ "parcelid" \in DOMAIN input[SmallestMember(x)].properties
          /\ \E p \in Range(merged_features[x].src) :
                \E field \in DOMAIN input[p].properties :
                    /\ NotNumericOrMetadata(field)
                    /\ field \notin DOMAIN input[SmallestMember(x)].properties

\* position p is alone: the only feature of its owner group, or a parsed
\* feature that no path of edges connects to another parsed feature of the
\* group
Alone(k, p) ==
    \/ GroupPositions(k) = {p}
    \/ Parses(p) /\ ComponentOf(p, ParsedPositions(k)) = {p}

\* C28: a feature that is the only feature of its owner group, or the only
\* member of its connected component, passes through merge_parcels unchanged:
\* it is in the output exactly once with its input geometry and properties, no
\* summed field rewritten and no _merged_count or _merged_parcels added.
C28_SingletonsPassThrough ==
    pc = "done" =>
        \A k \in GroupIndices :
            \A p \in GroupPositions(k) :
                Alone(k, p) =>
                    /\ Cardinality(OutputsOf(p)) = 1
                    /\ \A x \in OutputsOf(p) :
                          /\ merged_features[x].src = <<p>>
                          /\ merged_features[x].feature = input[p]
                          /\ merged_features[x].feature.geometry
                                = input[p].geometry
                          /\ MergeMetadataFields
                                \cap DOMAIN merged_features[x].feature.properties
                                   = {}

\* an owner group of which two features were merged and a third, with a
\* recognized numeric field, stands alone in the output
C28_Witness ==
    /\ pc = "done"
    /\ \E k \in GroupIndices :
          \E p \in GroupPositions(k) :
              /\ Alone(k, p)
              /\ GroupPositions(k) # {p}
              /\ \E field \in NumericFieldNames :
                    field \in DOMAIN input[p].properties
              /\ \E x \in MergedOutputs :
                    Range(merged_features[x].src) \subseteq GroupPositions(k)

\* the features that merge_parcels has returned
OutputFeatures == [x \in OutputIndices |-> merged_features[x].feature]

\* C30: merge_parcels is idempotent: when a call has returned (also one in
\* which the test of a pair raised, a union failed or a geometry did not
\* parse), a call on the returned collection returns a collection with the
\* same features, the same geometries, properties and merge metadata, in the
\* same order: the second pass merges, drops and reorders nothing.
C30_MergeIdempotent ==
    pc = "done" =>
        /\ merge_parcels(input) =
              [raised |-> FALSE, features |-> OutputFeatures]
        /\ merge_parcels(OutputFeatures) =
              [raised |-> FALSE, features |-> OutputFeatures]

\* a returned collection with a merged feature and a feature of the same
\* owner that has a common point with a member of the merged one and was kept
\* apart because the test of the pair raised
C30_Witness ==
    /\ pc = "done"
    /\ \E k \in GroupIndices :
          \E x \in MergedOutputs :
              /\ Range(merged_features[x].src) \subseteq GroupPositions(k)
              /\ \E p \in ParsedPositions(k) \ Range(merged_features[x].src) :
                    \E q \in Range(merged_features[x].src) :
                        /\ RaisingPair(p, q)
                        /\ input[p].geometry.pts \cap input[q].geometry.pts
                              # {}

(***************************************************************************)
(* Properties of geo_utils and of the pipeline entry points.               *)
(***************************************************************************)
\* the n-th call of the running entry point has returned
CallReturned(entry, n) == run.entry = entry /\ Len(run.rets) >= n

\* the collection the n-th call returned
ReturnedFrame(n) == frames[run.rets[n]]

\* C15: validate_geometries, simplify_geometries, clean_column_names and
\* add_area_length_fields never modify the collection the caller passed in:
\* after the call has returned the caller's collection has the geometries, the
\* column names and the attribute fields it had before, and the result is
\* another collection.
C15_CallerCollectionUntouched ==
    \A entry \in {"validate_geometries", "simplify_geometries",
                  "clean_column_names", "add_area_length_fields"} :
        CallReturned(entry, 1) =>
            /\ frames[1] = run.before
            /\ run.rets[1] # 1

\* the rows of the frame, null geometries left out, every invalid geometry
\* replaced by its valid form
RepairedRows(frame) ==
    LET kept == SelectSeq(frame.rows, LAMBDA row : row.geometry.gtype # "None")
    IN  [k \in 1..Len(kept) |->
            IF kept[k].geometry.valid THEN kept[k]
            ELSE [kept[k] EXCEPT !.geometry.valid = TRUE]]

AllValid(frame) ==
    \A k \in 1..Len(frame.rows) :
        frame.rows[k].geometry.gtype # "None" /\ frame.rows[k].geometry.valid

\* C17: validate_geometries with fix=True returns a collection whose every
\* geometry is valid: the valid features with their geometry unchanged, the
\* repaired ones with the repaired geometry, those still invalid after repair
\* (features without geometry) dropped; a collection already entirely valid,
\* its own output in particular, is returned unchanged.
C17_ValidateRepairsOrDrops ==
    (CallReturned("validate_geometries", 1) /\ run.fix) =>
        /\ AllValid(ReturnedFrame(1))
        /\ ReturnedFrame(1).rows = RepairedRows(run.before)
        /\ ReturnedFrame(1).columns = run.before.columns
        /\ ReturnedFrame(1).crs = run.before.crs
        /\ AllValid(run.before) =>
              run.rets[1] = 1 /\ frames[1] = run.before
        /\ Len(run.rets) >= 2 => run.rets[2] = run.rets[1]

\* a collection with a valid, an invalid and a missing geometry went through
\* validate_geometries twice
C17_Witness ==
    /\ CallReturned("validate_geometries", 2)
    /\ run.fix
    /\ \E a, b, c \in 1..Len(run.before.rows) :
          /\ run.before.rows[a].geometry.valid
          /\ run.before.rows[b].geometry.gtype = "Polygon"
          /\ ~run.before.rows[b].geometry.valid
          /\ run.before.rows[c].geometry.gtype = "None"
    /\ Len(ReturnedFrame(2).rows) = 2

\* the points of all boundary polygons, in the coordinates of the CRS
RegionIn(boundary, crs) ==
    UNION {{p + crs_offset(crs) - crs_offset(boundary.crs) :
               p \in boundary.rows[k].geometry.pts} :
           k \in 1..Len(boundary.rows)}

\* the features of the frame that reach the region, in the order of the
\* frame, each cut down to the region
ClippedRows(frame, region) ==
    LET kept == SelectSeq(frame.rows,
                          LAMBDA row : row.geometry.pts \cap region # {})
    IN  [k \in 1..Len(kept) |->
            [kept[k] EXCEPT !.geometry.pts = @ \cap region]]

\* C18: clip_to_boundary returns exactly the input features whose geometry
\* has a non-empty intersection with the union of all boundary polygons (the
\* boundary brought to the CRS of the collection), each with its geometry
\* replaced by the intersection and its other attributes unchanged, in the
\* same relative order as in the input.
C18_ClipKeepsIntersectingInOrder ==
    CallReturned("clip_to_boundary", 1) =>
        /\ ReturnedFrame(1).rows =
              ClippedRows(run.before, RegionIn(run.boundary, run.before.crs))
        /\ ReturnedFrame(1).columns = run.before.columns
        /\ ReturnedFrame(1).crs = run.before.crs

\* C19: clipping is idempotent: clip_to_boundary applied to its own result
\* with the same boundary returns the same features, geometries and order.
C19_ClipIdempotent ==
    CallReturned("clip_to_boundary", 2) => ReturnedFrame(2) = ReturnedFrame(1)

\* a clip of the running entry point returned and retained no feature
EmptyClip ==
    \E k \in 1..Len(run.history) :
        /\ run.history[k].stage = "clip"
        /\ ~run.history[k].raised
        /\ frames[run.history[k].ret].rows = <<>>

ClippingEntries ==
    {"transform_dataset", "transform_city_dataset", "clip_parcels_to_city"}

\* C20: a clip that retains zero features is no error: in transform_dataset,
\* transform_city_dataset and clip_parcels_to_city an empty clip result is
\* returned as an empty collection, never raised.
C20_EmptyClipIsReturned ==
    (run.entry \in ClippingEntries /\ EmptyClip) =>
        /\ run.status # "raised"
        /\ run.status = "returned" => frames[run.gdf].rows = <<>>

\* C20 as the code has it: transform_dataset and transform_city_dataset
\* return an empty clip result as an empty collection, and
\* transform_city_dataset raises ValueError only for a city that is not found;
\* clip_parcels_to_city raises ValueError for a city that is not found and
\* also for a clip that retains zero parcels, and never returns an empty
\* collection.
C20_EmptyClipByEntryPoint ==
    /\ (InTransform /\ EmptyClip) =>
          /\ run.status # "raised"
          /\ run.status = "returned" => frames[run.gdf].rows = <<>>
    /\ (InTransform /\ run.status = "raised"
        /\ run.error.type = "ValueError") =>
          /\ run.error.message = "City not found"
          /\ run.boundary = CityNotFound
    /\ (run.entry = "clip_parcels_to_city" /\ EmptyClip) =>
          /\ Program(run.entry)[run.step] = "nonempty"
          /\ \/ run.status = "running"
             \/ /\ run.status = "raised"
                /\ run.error =
                      Error("ValueError", "Clipping resulted in 0 parcels")
    /\ (run.entry = "clip_parcels_to_city" /\ run.status = "returned") =>
          frames[run.gdf].rows # <<>>
    /\ (run.entry \in ClippingEntries /\ run.boundary = CityNotFound
        /\ ~run.use_expansion) =>
          \/ run.step = 1 /\ run.status = "running"
          \/ run.status = "raised"
             /\ run.error = Error("ValueError", "City not found")

\* clip_parcels_to_city has clipped to a boundary that holds no parcel and
\* has raised
C20_Witness ==
    /\ run.entry = "clip_parcels_to_city"
    /\ EmptyClip
    /\ run.before.rows # <<>>
    /\ run.status = "raised"
    /\ run.error.message = "Clipping resulted in 0 parcels"

\* a stage of this name was run, or attempted, before place k of the history
RanBefore(stage, k) ==
    \E j \in 1..(k - 1) : run.history[j].stage = stage

\* C22: every pipeline run applies the stages in the order repair, clip,
\* metric fields, simplify: in transform_dataset and in clip_parcels_to_city
\* no collection is clipped before its repair has been attempted, metric
\* fields are computed only after the clip, and the simplification comes only
\* after the metric fields.
C22_RepairClipMetricsSimplify ==
    run.entry \in ClippingEntries =>
        \A k \in 1..Len(run.history) :
            /\ run.history[k].stage = "clip" => RanBefore("validate", k)
            /\ run.history[k].stage = "metrics" =>
                  /\ run.boundary # NoBoundary => RanBefore("clip", k)
                  /\ \A j \in (k + 1)..Len(run.history) :
                        run.history[j].stage # "clip"
            /\ run.history[k].stage = "simplify" => RanBefore("metrics", k)

\* the value of the named column in row k; absent without such a column
ColumnValue(frame, name, k) ==
    IF \E c \in 1..Len(frame.columns) : frame.columns[c] = name
    THEN LET c == CHOOSE c \in 1..Len(frame.columns) : frame.columns[c] = name
         IN  [absent |-> FALSE, v |-> frame.rows[k].values[c]]
    ELSE [absent |-> TRUE, v |-> Null]

Attached(v) == [absent |-> FALSE, v |-> v]

\* C23: add_area_length_fields attaches the metric fields feature by feature:
\* in every collection, one that mixes polygons and lines included, every
\* polygonal feature receives area_sqm and area_acres and every linear feature
\* length_m and length_ft, whatever the geometry type of the first feature
\* is; geometries and coordinate system stay as they were.
C23_MetricsPerFeature ==
    CallReturned("add_area_length_fields", 1) =>
        LET out == ReturnedFrame(1)
        IN  /\ geometries_of(out) = geometries_of(run.before)
            /\ out.crs = run.before.crs
            /\ \A k \in 1..Len(out.rows) :
                  LET geom == out.rows[k].geometry
                  IN  /\ polygonal(geom) =>
                            /\ ColumnValue(out, area_sqm, k)
                                  = Attached(area(geom))
                            /\ ColumnValue(out, area_acres, k)
                                  = Attached(scaled(area(geom), AcresPerSqm))
                      /\ linear(geom) =>
                            /\ ColumnValue(out, length_m, k)
                                  = Attached(length(geom))
                            /\ ColumnValue(out, length_ft, k)
                                  = Attached(scaled(length(geom),
                                                    FeetPerMetre))

\* C29: the vertex count of simplify_geometries is a report only and never
\* decides the outcome: whenever transform_dataset calls simplify_geometries
\* (first geometry a Polygon, MultiPolygon, LineString or MultiLineString) the
\* call returns the simplified collection and raises nothing, whatever the
\* geometry types of the other features are and also when no vertex was
\* counted.
C29_VertexReportNeverRaises ==
    InTransform =>
        \A k \in 1..Len(run.history) :
            run.history[k].stage = "simplify" => ~run.history[k].raised

\* the function that the caller of the run invoked
Invoked == IF run.callers = <<>> THEN run.entry ELSE run.callers[1].entry

\* the invocation has returned to its caller
InvocationReturned == run.callers = <<>> /\ run.status = "returned"

\* run_full_pipeline has logged PIPELINE COMPLETE
PipelineComplete ==
    \E k \in 1..Len(run.history) : run.history[k].stage = "complete"

\* the lookup of the city in the cities dataset has failed in this
\* invocation: ValueError('City not found') was raised, and is on its way up
\* or was swallowed by a handler
CityLookupFailed ==
    \/ run.error = Error("ValueError", "City not found")
    \/ Error("ValueError", "City not found") \in run.caught

\* C21: when the requested city is not in the boundary dataset the invocation
\* ends in a hard failure: transform_city_dataset, transform_all_for_city and
\* run_full_pipeline never return, they raise, and the pipeline never reaches
\* its complete state.
C21_CityNotFoundIsHardFailure ==
    ( /\ Invoked \in {"transform_city_dataset", "transform_all_for_city",
                      "run_full_pipeline"}
      /\ CityLookupFailed )
    => /\ ~InvocationReturned
       /\ ~PipelineComplete

====
